---- MODULE Spec2Model ----
(***************************************************************************)
(* Model of the dns-parser header codec (src/src/header.rs), the address   *)
(* record decoder (src/src/rdata/a.rs) and the RData union                 *)
(* (src/src/rdata/config.rs).  Buffers are sequences of bytes (0..255);    *)
(* u16 arithmetic is done modulo 2^16.                                     *)
(***************************************************************************)
EXTENDS Integers, Sequences, FiniteSets, TLC

VARIABLES
    data,   \* the byte buffer the caller holds (1-based here, 0-based in Rust)
    old,    \* the buffer as it was passed to the last call
    hdr,    \* the Header value the caller holds (`self` of Header::write)
    arg,    \* the other arguments of the last call
    ret,    \* what the last call returned: [tag, val]
    op,     \* the last call
    bld     \* the Builder under construction

vars == <<data, old, hdr, arg, ret, op, bld>>

(***************************************************************************)
(* Bounds of the model.                                                    *)
(***************************************************************************)
\* longest buffer handed to Header::parse / Header::set_truncated / Header::write
MaxLen == 14
\* longest rdata slice handed to the address record decoder
MaxRdLen == 6
\* largest byte budget of a Builder
MaxBudget == 17
\* largest record (in bytes) a Builder is asked to add
MaxRecSize == 3

(***************************************************************************)
(* Machine arithmetic.                                                     *)
(***************************************************************************)
U16 == 65536
U8 == 256

RECURSIVE BitAnd(_, _)
BitAnd(a, b) ==
    IF a = 0 \/ b = 0 THEN 0
    ELSE (a % 2) * (b % 2) + 2 * BitAnd(a \div 2, b \div 2)

RECURSIVE BitOr(_, _)
BitOr(a, b) ==
    IF a = 0 THEN b
    ELSE IF b = 0 THEN a
    ELSE (IF a % 2 = 1 \/ b % 2 = 1 THEN 1 ELSE 0) + 2 * BitOr(a \div 2, b \div 2)

RECURSIVE Pow2(_)
Pow2(n) == IF n = 0 THEN 1 ELSE 2 * Pow2(n - 1)

\* u16 << n and u16 >> n (n < 16): bits shifted out are dropped
Shl16(x, n) == (x * Pow2(n)) % U16
Shr16(x, n) == x \div Pow2(n)

\* u16::trailing_zeros
RECURSIVE TrailingZeros(_)
TrailingZeros(x) == IF x = 0 THEN 16 ELSE IF x % 2 = 1 THEN 0 ELSE 1 + TrailingZeros(x \div 2)

\* a slip: the two bytes read in little-endian order
FromLe(d, i) == d[i + 2] * 256 + d[i + 1]

\* u16::from_be_bytes of the two bytes data[i..i+2] (i is the Rust offset)
FromBe(d, i) == d[i + 1] * U8 + d[i + 2]
\* u16::to_be_bytes
ToBe(x) == <<x \div U8, x % U8>>
\* data[i..i+2].copy_from_slice(two)
Patch2(d, i, two) ==
    [k \in 1..Len(d) |-> IF k = i + 1 THEN two[1] ELSE IF k = i + 2 THEN two[2] ELSE d[k]]

(***************************************************************************)
(* mod flag                                                                *)
(***************************************************************************)
QUERY == 32768
OPCODE_MASK == 30720
AUTHORITATIVE == 1024
TRUNCATED == 512
RECURSION_DESIRED == 256
RECURSION_AVAILABLE == 128
AUTHENTICATED_DATA == 32
CHECKING_DISABLED == 16
RESERVED_MASK == 64
RESPONSE_CODE_MASK == 15

\* Header::size
HeaderSize == 12

(***************************************************************************)
(* Opcode and ResponseCode (crate::enums): integer <-> symbol, an          *)
(* unassigned integer is kept in a catch-all symbol.                       *)
(***************************************************************************)
OpcodeFrom(code) ==
    [sym |-> CASE code = 0 -> "StandardQuery"
               [] code = 1 -> "InverseQuery"
               [] code = 2 -> "ServerStatusRequest"
               [] OTHER -> "Reserved",
     code |-> code]
OpcodeInto(o) == o.code

ResponseCodeFrom(code) ==
    [sym |-> CASE code = 0 -> "NoError"
               [] code = 1 -> "FormatError"
               [] code = 2 -> "ServerFailure"
               [] code = 3 -> "NameError"
               [] code = 4 -> "NotImplemented"
               [] code = 5 -> "Refused"
               [] OTHER -> "Reserved",
     code |-> code]
ResponseCodeInto(r) == r.code

(***************************************************************************)
(* Results of calls.                                                       *)
(***************************************************************************)
Ok(v) == [tag |-> "Ok", val |-> v]
Err(e) == [tag |-> "Err", val |-> e]
Panic == [tag |-> "Panic", val |-> "panic"]
Unit == [tag |-> "Unit", val |-> "unit"]
None == [tag |-> "None", val |-> "none"]

(***************************************************************************)
(* Header::parse                                                           *)
(***************************************************************************)
ParseFields(d, flags) ==
    [id |-> FromBe(d, 0),
     query |-> BitAnd(flags, QUERY) = 0,
     opcode |-> OpcodeFrom(Shr16(BitAnd(flags, OPCODE_MASK), TrailingZeros(OPCODE_MASK))),
     authoritative |-> BitAnd(flags, AUTHORITATIVE) # 0,
     truncated |-> BitAnd(flags, TRUNCATED) # 0,
     recursion_desired |-> BitAnd(flags, RECURSION_DESIRED) # 0,
     recursion_available |-> BitAnd(flags, RECURSION_AVAILABLE) # 0,
     authenticated_data |-> BitAnd(flags, AUTHENTICATED_DATA) # 0,
     checking_disabled |-> BitAnd(flags, CHECKING_DISABLED) # 0,
     response_code |-> ResponseCodeFrom(BitAnd(flags, RESPONSE_CODE_MASK) % U8),
     questions |-> FromBe(d, 4),
     answers |-> FromBe(d, 6),
     nameservers |-> FromBe(d, 8),
     additional |-> FromBe(d, 10)]

\* a slip: the reserved bit is not looked at
HeaderParse_NoReservedCheck(d) ==
    IF Len(d) < 12 THEN Err("HeaderTooShort")
    ELSE Ok(ParseFields(d, FromBe(d, 2)))

\* a slip: a buffer of exactly 12 bytes is taken as too short
HeaderParse_Le12(d) ==
    IF Len(d) <= 12 THEN Err("HeaderTooShort")
    ELSE LET flags == FromBe(d, 2) IN
         IF BitAnd(flags, RESERVED_MASK) # 0 THEN Err("ReservedBitsAreNonZero")
         ELSE Ok(ParseFields(d, flags))

HeaderParse(d) ==
    IF Len(d) < 12 THEN Err("HeaderTooShort")
    ELSE LET flags == FromBe(d, 2) IN
         IF BitAnd(flags, RESERVED_MASK) # 0 THEN Err("ReservedBitsAreNonZero")
         ELSE Ok(ParseFields(d, flags))

(***************************************************************************)
(* Header::write                                                           *)
(***************************************************************************)
WriteFlags(h) ==
    LET f0 == BitOr(0, Shl16(OpcodeInto(h.opcode), TrailingZeros(OPCODE_MASK)))
        f1 == BitOr(f0, ResponseCodeInto(h.response_code) % U16)
        f2 == IF ~h.query THEN BitOr(f1, QUERY) ELSE f1
        f3 == IF h.authoritative THEN BitOr(f2, AUTHORITATIVE) ELSE f2
        f4 == IF h.recursion_desired THEN BitOr(f3, RECURSION_DESIRED) ELSE f3
        f5 == IF h.recursion_available THEN BitOr(f4, RECURSION_AVAILABLE) ELSE f4
        f6 == IF h.truncated THEN BitOr(f5, TRUNCATED) ELSE f5
    IN  f6

\* the six copy_from_slice calls of Header::write on a 12-byte buffer
WriteBytes(h, d) ==
    LET d1 == Patch2(d, 0, ToBe(h.id % U16))
        d2 == Patch2(d1, 2, ToBe(WriteFlags(h) % U16))
        d3 == Patch2(d2, 4, ToBe(h.questions % U16))
        d4 == Patch2(d3, 6, ToBe(h.answers % U16))
        d5 == Patch2(d4, 8, ToBe(h.nameservers % U16))
        d6 == Patch2(d5, 10, ToBe(h.additional % U16))
    IN  d6

\* a slip: only a buffer shorter than 12 bytes panics
HeaderWrite_AtLeast12(h, d) ==
    IF Len(d) < 12 THEN [panicked |-> TRUE, data |-> d]
    ELSE [panicked |-> FALSE, data |-> WriteBytes(h, d)]

\* [panicked, data]: the panic of line 72 leaves the buffer as it was
HeaderWrite(h, d) ==
    IF Len(d) # 12 THEN [panicked |-> TRUE, data |-> d]
    ELSE [panicked |-> FALSE, data |-> WriteBytes(h, d)]

(***************************************************************************)
(* Header::set_truncated                                                   *)
(***************************************************************************)
\* data[2..4] of a buffer shorter than 4 bytes is out of range: a panic
SetTruncatedBytes(d) ==
    LET oldflags == FromBe(d, 2)
    IN  Patch2(d, 2, ToBe(BitAnd(oldflags, TRUNCATED)))

HeaderSetTruncated(d) ==
    IF Len(d) < 4 THEN [panicked |-> TRUE, data |-> d]
    ELSE [panicked |-> FALSE, data |-> SetTruncatedBytes(d)]

(***************************************************************************)
(* The inputs the callers are given.                                       *)
(***************************************************************************)
MkHeader(id, opc, rc, b, c) ==
    [id |-> id,
     query |-> b[1],
     opcode |-> OpcodeFrom(opc),
     authoritative |-> b[2],
     truncated |-> b[3],
     recursion_desired |-> b[4],
     recursion_available |-> b[5],
     authenticated_data |-> b[6],
     checking_disabled |-> b[7],
     response_code |-> ResponseCodeFrom(rc),
     questions |-> c[1],
     answers |-> c[2],
     nameservers |-> c[3],
     additional |-> c[4]]

\* 0x0625, the id of the packets of header.rs's tests
ExampleId == 1573
IdSamples == {0, ExampleId, 65535}
CountSamples == {<<1, 0, 0, 0>>, <<1, 1, 0, 0>>, <<258, 772, 1286, 1800>>,
                 <<65535, 65535, 65535, 65535>>}
BoolSamples == {<<TRUE, FALSE, FALSE, TRUE, FALSE, FALSE, FALSE>>,
                <<FALSE, TRUE, TRUE, TRUE, TRUE, FALSE, FALSE>>,
                <<FALSE, FALSE, TRUE, FALSE, TRUE, TRUE, TRUE>>}
AllBools == [1..7 -> BOOLEAN]

\* Header values with wire-range codes: every flag combination, every code
WireHeaders ==
    {MkHeader(ExampleId, oc[1], oc[2], b, <<1, 0, 0, 0>>) :
        oc \in {<<0, 0>>, <<5, 3>>, <<15, 15>>}, b \in AllBools}
    \cup
    {MkHeader(ic[1], o, r, b, ic[2]) :
        ic \in {<<0, <<1, 1, 0, 0>>>>, <<65535, <<258, 772, 1286, 1800>>>>},
        o \in 0..15, r \in 0..15, b \in BoolSamples}
\* Header values whose catch-all codes do not fit the 4 wire bits
WideHeaders ==
    {MkHeader(ExampleId, o, r, b, <<1, 0, 0, 0>>) :
        o \in {0, 16, 31, 65535}, r \in {0, 16, 64, 255}, b \in BoolSamples}
Headers == WireHeaders \cup WideHeaders
\* the headers of parse_example_query and parse_example_response
HeaderSamples ==
    {MkHeader(ExampleId, 0, 0, <<TRUE, FALSE, FALSE, TRUE, FALSE, FALSE, FALSE>>, <<1, 0, 0, 0>>),
     MkHeader(ExampleId, 0, 0, <<FALSE, FALSE, FALSE, TRUE, TRUE, FALSE, FALSE>>, <<1, 1, 0, 0>>)}

\* flags words: each byte takes every value against samples of the other
FlagSamples == {0, 256, 33152, 288, 272, 320, 65471, 65535, 512, 64}
FlagWords ==
    {hi * U8 + lo : hi \in 0..255, lo \in {0, 128, 32, 16, 64, 191, 255, 15}}
    \cup {hi * U8 + lo : hi \in {0, 1, 129, 2, 4, 120, 253, 255}, lo \in 0..255}

\* a 12-byte header followed by fill bytes, cut to len bytes
Wire(id, flags, c, fill, len) ==
    LET full == ToBe(id) \o ToBe(flags) \o ToBe(c[1]) \o ToBe(c[2]) \o ToBe(c[3]) \o ToBe(c[4])
    IN  [k \in 1..len |-> IF k <= 12 THEN full[k] ELSE fill]

FillSamples == {7, 192, 255}
WireBuffers ==
    {Wire(ExampleId, f, <<1, 0, 0, 0>>, 7, len) : f \in FlagWords, len \in {12, MaxLen}}
    \cup
    {Wire(id, f, c, fill, len) :
        id \in IdSamples, f \in FlagSamples, c \in CountSamples,
        fill \in FillSamples, len \in 0..MaxLen}

Zeros(n) == [k \in 1..n |-> 0]

NoBuilder == [phase |-> 0]

(***************************************************************************)
(* The header codec: a caller holding a buffer and a Header value.         *)
(***************************************************************************)
Init ==
    /\ \/ data \in WireBuffers /\ hdr \in HeaderSamples
       \/ data = Zeros(HeaderSize) /\ hdr \in Headers
    /\ old = data
    /\ arg = None
    /\ ret = None
    /\ op = "init"
    /\ bld = NoBuilder

\* let r = Header::parse(&data)
Parse ==
    /\ op' = "parse"
    /\ old' = data
    /\ ret' = HeaderParse(data)
    /\ arg' = None
    /\ UNCHANGED <<data, hdr, bld>>

\* hdr.write(&mut data)
Write ==
    LET r == HeaderWrite(hdr, data) IN
    /\ op' = "write"
    /\ old' = data
    /\ data' = r.data
    /\ ret' = IF r.panicked THEN Panic ELSE Unit
    /\ arg' = None
    /\ UNCHANGED <<hdr, bld>>

\* Header::set_truncated(&mut data)
SetTruncated ==
    LET r == HeaderSetTruncated(data) IN
    /\ op' = "set_truncated"
    /\ old' = data
    /\ data' = r.data
    /\ ret' = IF r.panicked THEN Panic ELSE Unit
    /\ arg' = None
    /\ UNCHANGED <<hdr, bld>>

Next == Parse \/ Write \/ SetTruncated

Spec == Init /\ [][Next]_vars

(***************************************************************************)
(* rdata: the RData union and the address record decoder.                  *)
(***************************************************************************)
\* the variants of enum RData
RDataVariants == {"A", "AAAA", "CNAME", "MX", "NS", "PTR", "SOA", "SRV", "TXT", "OPT"}

\* <a::Record as Record>::TYPE
TYPE_A == 1

\* Ipv4Addr::from([u8; 4]): the address a.b.c.d as its 32 bits in network order,
\* kept as the high and the low 16 bits, and Ipv4Addr::octets
Ipv4AddrFrom(o) == [hi |-> o[1] * U8 + o[2], lo |-> o[3] * U8 + o[4]]
Ipv4Octets(a) == <<a.hi \div U8, a.hi % U8, a.lo \div U8, a.lo % U8>>

\* <[u8; 4]>::try_from(rdata): only a slice of exactly 4 bytes converts
TryInto4(rdata) == IF Len(rdata) = 4 THEN Ok(rdata) ELSE Err("TryFromSliceError")

\* a slip: a longer slice is accepted and its first 4 bytes taken
RecordAParse_Prefix(rdata, original) ==
    IF Len(rdata) < 4 THEN Err("WrongRdataLength")
    ELSE Ok([variant |-> "A", payload |-> Ipv4AddrFrom(SubSeq(rdata, 1, 4))])

\* <a::Record as Record>::parse(rdata, _original)
RecordAParse(rdata, original) ==
    LET conv == TryInto4(rdata) IN
    IF conv.tag = "Err" THEN Err("WrongRdataLength")
    ELSE Ok([variant |-> "A", payload |-> Ipv4AddrFrom(conv.val)])

\* the type codes that have a decoder: one per variant of RData
RegisteredTypes == {TYPE_A, 2, 5, 6, 12, 15, 16, 28, 33, 41}

\* the registry's dispatch on the type code; of the decoders only a::Record is
\* given, so the callers below draw TYPE_A and unregistered codes
RDataParse(type_code, rdata, original) ==
    IF type_code = TYPE_A THEN RecordAParse(rdata, original)
    ELSE IF type_code \notin RegisteredTypes THEN Ok([variant |-> "Unknown", payload |-> rdata])
    ELSE None

RdBytes == {0, 93, 255}
RECURSIVE SeqsUpTo(_, _)
SeqsUpTo(S, n) ==
    IF n = 0 THEN {<<>>}
    ELSE LET shorter == SeqsUpTo(S, n - 1)
         IN  shorter \cup {Append(q, b) : q \in {x \in shorter : Len(x) = n - 1}, b \in S}
RdSlices == SeqsUpTo(RdBytes, MaxRdLen)

\* whole messages the rdata is said to come from
Originals == {<<>>, Zeros(HeaderSize), <<93, 184, 216, 34>>,
              Wire(ExampleId, 33152, <<1, 1, 0, 0>>, 93, HeaderSize + 4)}
TypeCodeSamples == {TYPE_A, 0, 99, 65535}

InitRData ==
    /\ data \in Originals
    /\ old = data
    /\ hdr = MkHeader(ExampleId, 0, 0, <<TRUE, FALSE, FALSE, TRUE, FALSE, FALSE, FALSE>>, <<1, 0, 0, 0>>)
    /\ \E type_code \in TypeCodeSamples, rdata \in RdSlices :
           arg = [type_code |-> type_code, rdata |-> rdata]
    /\ ret = None
    /\ op = "init"
    /\ bld = NoBuilder

\* a::Record::parse(arg.rdata, &data)
AParse ==
    /\ op' = "a_parse"
    /\ ret' = RecordAParse(arg.rdata, data)
    /\ UNCHANGED <<data, old, hdr, arg, bld>>

\* the registry's decode of a record's rdata
Decode ==
    /\ op' = "rdata_parse"
    /\ ret' = RDataParse(arg.type_code, arg.rdata, data)
    /\ UNCHANGED <<data, old, hdr, arg, bld>>

NextRData == AParse \/ Decode

SpecRData == InitRData /\ [][NextRData]_vars

(***************************************************************************)
(* Builder: append-only construction against a byte budget.  A record is   *)
(* taken as its length in bytes, its bytes as its number in the message.   *)
(***************************************************************************)
Sections == <<"questions", "answers", "nameservers", "additional">>

RECURSIVE SumSizes(_)
SumSizes(rs) == IF rs = <<>> THEN 0 ELSE Head(rs).size + SumSizes(Tail(rs))

CountIn(rs, sec) == Cardinality({i \in 1..Len(rs) : rs[i].section = sec})

BuilderNew(max, rd) ==
    [phase |-> 1, max |-> max, rd |-> rd, recs |-> <<>>, body |-> <<>>, truncated |-> FALSE]

\* one add_question / add_answer / add_nameserver / add_additional
BuilderAdd(b, sec, size) ==
    IF b.truncated THEN b
    ELSE IF HeaderSize + Len(b.body) + size > b.max THEN [b EXCEPT !.truncated = TRUE]
    ELSE [b EXCEPT !.phase = sec,
                   !.recs = Append(@, [section |-> sec, size |-> size]),
                   !.body = @ \o [k \in 1..size |-> Len(b.recs) + 1]]

\* the header a finished build starts with
BuilderHeader(b) ==
    MkHeader(ExampleId, 0, 0, <<TRUE, FALSE, FALSE, b.rd, FALSE, FALSE, FALSE>>,
             <<CountIn(b.recs, 1), CountIn(b.recs, 2), CountIn(b.recs, 3), CountIn(b.recs, 4)>>)

\* finalize: the header is written, its truncation flag patched, the body follows
BuilderBuild(b) ==
    LET written == HeaderWrite(BuilderHeader(b), Zeros(HeaderSize)).data
        head == IF b.truncated THEN HeaderSetTruncated(written).data ELSE written
    IN  head \o b.body

InitBuilder ==
    /\ \E max \in HeaderSize..MaxBudget, rd \in BOOLEAN : bld = BuilderNew(max, rd)
    /\ data = <<>>
    /\ old = <<>>
    /\ hdr = BuilderHeader(bld)
    /\ arg = None
    /\ ret = None
    /\ op = "init"

Add ==
    /\ bld.phase \in 1..4
    /\ \E sec \in bld.phase..4, size \in 1..MaxRecSize :
        /\ bld' = BuilderAdd(bld, sec, size)
        /\ arg' = [section |-> sec, size |-> size]
    /\ op' = "add"
    /\ ret' = Unit
    /\ UNCHANGED <<data, old, hdr>>

Build ==
    /\ bld.phase \in 1..4
    /\ data' = BuilderBuild(bld)
    /\ bld' = [bld EXCEPT !.phase = 5]
    /\ hdr' = BuilderHeader(bld)
    /\ op' = "build"
    /\ arg' = None
    /\ ret' = Unit
    /\ UNCHANGED old

NextBuilder == Add \/ Build

SpecBuilder == InitBuilder /\ [][NextBuilder]_vars

(***************************************************************************)
(* Properties.                                                             *)
(***************************************************************************)
IsErr(r, e) == r.tag = "Err" /\ r.val = e
SameResult(a, b) == a.tag = b.tag /\ a.val = b.val
\* the flags word of a buffer, and its bit n, by arithmetic
FlagsOf(d) == d[3] * 256 + d[4]
FlagBit(d, n) == (FlagsOf(d) \div Pow2(n)) % 2 = 1
Be16At(d, k) == d[k] * 256 + d[k + 1]

\* C1: a Header with 4-bit opcode and response code, written into a 12-byte
\* buffer and parsed back, comes back equal in every field.
C1_HeaderRoundTrip ==
    (op = "write" /\ ret = Unit
        /\ hdr.opcode.code \in 0..15 /\ hdr.response_code.code \in 0..15)
    => SameResult(HeaderParse(data), Ok(hdr))

\* C2: after set_truncated on a serialized header (at least 12 bytes, reserved
\* bit clear), Header::parse of the buffer gives truncated = TRUE.
C2_SetTruncatedSetsFlag ==
    (op = "set_truncated" /\ Len(old) >= 12 /\ ~FlagBit(old, 6))
    => LET p == HeaderParse(data)
       IN  p.tag = "Ok" /\ p.val.truncated

\* C3: a finished build fits the budget and ends at a record boundary, its
\* header has the truncation flag set exactly when an addition was refused, and
\* its four counts are the numbers of records written.
C3_BuilderBudget ==
    op = "build"
    => LET p == HeaderParse(data) IN
       /\ Len(data) <= bld.max
       /\ Len(data) = HeaderSize + SumSizes(bld.recs)
       /\ p.tag = "Ok"
       /\ p.val.truncated = bld.truncated
       /\ p.val.questions = CountIn(bld.recs, 1)
       /\ p.val.answers = CountIn(bld.recs, 2)
       /\ p.val.nameservers = CountIn(bld.recs, 3)
       /\ p.val.additional = CountIn(bld.recs, 4)

\* C4: decoding rdata of an unregistered type code succeeds with a variant of
\* the RData union that holds exactly the rdata bytes.
C4_UnknownTypeOpaque ==
    (op = "rdata_parse" /\ arg.type_code \notin RegisteredTypes)
    => /\ ret.tag = "Ok"
       /\ ret.val.variant \in RDataVariants
       /\ ret.val.payload = arg.rdata

\* C5: the address record decoder fails with WrongRdataLength exactly when the
\* slice is not 4 bytes long, and otherwise gives RData::A of the address whose
\* octets are the slice's bytes in order, whatever the whole message is.
C5_AddressExactLength ==
    op = "a_parse"
    => /\ IsErr(ret, "WrongRdataLength") <=> Len(arg.rdata) # 4
       /\ ret.tag \in {"Ok", "Err"}
       /\ Len(arg.rdata) = 4
            => /\ ret.tag = "Ok"
               /\ ret.val.variant = "A"
               /\ Ipv4Octets(ret.val.payload) = arg.rdata
C5_Witness ==
    /\ op = "a_parse"
    /\ arg.rdata = <<93, 255, 0, 93>>
    /\ ret.tag = "Ok"
    /\ data # <<>>

\* C6: on a buffer of at least 12 bytes Header::parse fails with
\* ReservedBitsAreNonZero exactly when the always-zero bit (0x0040) of the flags
\* word is set, and succeeds otherwise.
C6_ReservedBitsError ==
    (op = "parse" /\ Len(data) >= 12)
    => /\ IsErr(ret, "ReservedBitsAreNonZero") <=> FlagBit(data, 6)
       /\ ~FlagBit(data, 6) => ret.tag = "Ok"
       /\ FlagBit(data, 6) => ret.tag = "Err"
C6_Witness ==
    /\ op = "parse"
    /\ Len(data) > 12
    /\ FlagsOf(data) = 320
    /\ IsErr(ret, "ReservedBitsAreNonZero")

\* C7: an accepted buffer's fields are the big-endian words at offsets 0, 4, 6,
\* 8, 10 and the bits of the flags word at offset 2, each field its own bits.
C7_ParseFieldLayout ==
    (op = "parse" /\ ret.tag = "Ok")
    => LET h == ret.val IN
       /\ h.id = Be16At(data, 1)
       /\ h.questions = Be16At(data, 5)
       /\ h.answers = Be16At(data, 7)
       /\ h.nameservers = Be16At(data, 9)
       /\ h.additional = Be16At(data, 11)
       /\ h.query = ~FlagBit(data, 15)
       /\ h.opcode.code = (FlagsOf(data) \div 2048) % 16
       /\ h.authoritative = FlagBit(data, 10)
       /\ h.truncated = FlagBit(data, 9)
       /\ h.recursion_desired = FlagBit(data, 8)
       /\ h.recursion_available = FlagBit(data, 7)
       /\ h.authenticated_data = FlagBit(data, 5)
       /\ h.checking_disabled = FlagBit(data, 4)
       /\ h.response_code.code = FlagsOf(data) % 16
C7_Witness ==
    /\ op = "parse"
    /\ ret.tag = "Ok"
    /\ FlagsOf(data) = 33152
    /\ ret.val.recursion_available /\ ~ret.val.query
    /\ ret.val.id = ExampleId
    /\ ret.val.nameservers = 1286

\* C8: Header::write panics on every buffer that is not 12 bytes long and leaves
\* it as it was; on a 12-byte buffer it does not panic and sets all 12 bytes
\* from the Header alone.
C8_WriteExactly12 ==
    op = "write"
    => IF Len(old) # 12
       THEN ret = Panic /\ data = old
       ELSE /\ ret = Unit
            /\ Len(data) = 12
            /\ Be16At(data, 1) = hdr.id
            /\ Be16At(data, 5) = hdr.questions
            /\ Be16At(data, 7) = hdr.answers
            /\ Be16At(data, 9) = hdr.nameservers
            /\ Be16At(data, 11) = hdr.additional
            /\ data = WriteBytes(hdr, Zeros(12))
C8_Witness ==
    /\ op = "write"
    /\ ret = Unit
    /\ \A k \in 1..12 : old[k] # data[k]

\* C9: set_truncated changes at most the truncation bit (0x0200) of the flags
\* word of a serialized header: every other bit and byte is as before.
C9_SetTruncatedFrame ==
    (op = "set_truncated" /\ Len(old) >= 12)
    => /\ Len(data) = Len(old)
       /\ \A k \in 1..Len(old) : k \notin {3, 4} => data[k] = old[k]
       /\ \A n \in 0..15 : n # 9 => (FlagBit(data, n) <=> FlagBit(old, n))

\* C10: Header::parse returns on every buffer; HeaderTooShort exactly when the
\* buffer has fewer than 12 bytes, whatever its bits; otherwise the result is
\* that of the first 12 bytes.
C10_ParseTotal ==
    op = "parse"
    => /\ ret.tag \in {"Ok", "Err"}
       /\ IsErr(ret, "HeaderTooShort") <=> Len(data) < 12
       /\ Len(data) >= 12 => SameResult(ret, HeaderParse(SubSeq(data, 1, 12)))
C10_Witness ==
    /\ op = "parse"
    /\ Len(data) \in 4..11
    /\ FlagBit(data, 6)
    /\ IsErr(ret, "HeaderTooShort")

====
